---- MODULE Spec2Model ----
(***************************************************************************)
(* Model of i3/mixer.py: the Pactl audio backend and the click handler of  *)
(* the py3status volume module (edit mode, sink cycling).                  *)
(*                                                                         *)
(* The external sound server is part of the state: the sink listing, the   *)
(* default sink, the routing of the playing streams and each sink's volume.*)
(* Every handler of the module is one action; the commands it hands to     *)
(* py3.command_run / py3.command_output are recorded in cmds.              *)
(***************************************************************************)
EXTENDS Integers, Sequences, FiniteSets, TLC

\* ---------------------------------------------------------------- bounds
NumDevices == 3          \* sinks the sound server may know
NumStreams == 2          \* playing streams (sink inputs)
MaxDelta == 6            \* largest delta handed to volume_up / volume_down

\* ------------------------------------------------------ program constants
button_left == 1
button_right == 3
scroll_up == 4
scroll_down == 5
max_volume == 200
volume_delta == 5

\* Python's None, as stored by py3.storage_get for a key never set and as
\* returned by get_default_device(True) when no "Default Sink:" line matches.
None == "None"

\* Names of the sinks the server may know; sink d has name SinkNames[d] and
\* server index d - 1, so that a listing with a sink missing has indices
\* that differ from list positions.
SinkNames == <<"A", "B", "C", "D", "E", "F">>
Devices == 1..NumDevices
Streams == 1..NumStreams
SinkStates == {"RUNNING", "SUSPENDED"}
Buttons == 1..5
Deltas == 0..MaxDelta

\* get_volume's (None, None), for the percentage
Unknown == -1

VARIABLES
    sinks,         \* `pactl list sinks`: sequence of [index, name, state]
    default_sink,  \* `pactl info`: name after "Default Sink: ", or None
    route,         \* `pactl list short sink-inputs`: stream -> sink index, -1 = no such stream
    volume,        \* "Volume:" percentage of each sink, by device
    muted,         \* "Mute: yes" in the block of the sink Pactl.device denotes
    device,        \* Pactl.device
    edit_mode,     \* py3 storage 'edit_mode'
    sink_name,     \* py3 storage 'sink_name'
    button,        \* button of the event handled last (0: none)
    arg,           \* delta handed to the volume operation run last (0: none)
    outcome,       \* how the last handler ended
    cmds,          \* argv of the commands the last handler ran, in order
    command,       \* Py3status.command: the backend's name, or None
    backend,       \* class of Py3status.backend, None before it is built
    installed,     \* the executables py3.check_commands finds
    blocks,        \* Py3status.blocks: the glyph ramp
    response       \* what volume_status returned last

vars == <<sinks, default_sink, route, volume, muted, device, edit_mode,
          sink_name, button, arg, outcome, cmds, command, backend, installed,
          blocks, response>>
world == <<sinks, default_sink, route, volume, muted>>
storage == <<edit_mode, sink_name>>
widget == <<command, backend, installed, blocks, response>>

\* ------------------------------------------------------------ helpers
Names(s) == {s[i].name : i \in DOMAIN s}
Indices(s) == {s[i].index : i \in DOMAIN s}
Present(d) == (d - 1) \in Indices(sinks)

\* variant: everything but False counts as true, None included
Truthy_NotFalse(v) == v # "False"
\* Python's truth value of a stored flag, and `not`
Truthy(v) == v = "True"
\* variant: the flag is stored back without the `not`
PyNot_Forgotten(v) == IF Truthy(v) THEN "True" ELSE "False"
PyNot(v) == IF Truthy(v) THEN "False" ELSE "True"

\* the listing the server prints is ordered by index; f[d] is the state of
\* sink d or "absent"
RECURSIVE Listing(_, _)
Listing(d, f) ==
    IF d > NumDevices THEN <<>>
    ELSE (IF f[d] = "absent" THEN <<>>
          ELSE <<[index |-> d - 1, name |-> SinkNames[d], state |-> f[d]]>>)
         \o Listing(d + 1, f)

SinkOf(d) == CHOOSE i \in DOMAIN sinks : sinks[i].index = d - 1
AsMap == [d \in Devices |-> IF Present(d) THEN sinks[SinkOf(d)].state ELSE "absent"]

\* ------------------------------------------------ Pactl (the backend)
\* Pactl.device is a sink index once it is handed to pactl: setup stores the
\* first token of the short listing, swap_device stores the number it is given.
HasTarget(list, dev) == dev \in Indices(list)

\* get_device_index: the first token of the short-listing line whose second
\* token is device_id; RuntimeError (here -1) when there is none
get_device_index(device_id) ==
    IF device_id # None /\ \E i \in DOMAIN sinks : sinks[i].name = device_id
    THEN sinks[CHOOSE i \in DOMAIN sinks :
                 /\ sinks[i].name = device_id
                 /\ \A j \in DOMAIN sinks : sinks[j].name = device_id => i <= j].index
    ELSE -1

\* variant: the first sink of the listing instead of the server's default
get_default_device_first == IF sinks = <<>> THEN None ELSE sinks[1].name
\* get_default_device(name=True): the text after "Default Sink: ", None
\* when no line of `pactl info` matches
get_default_device_name == default_sink

\* get_sink_inputs: first token of every line of the short stream listing
RECURSIVE StreamsFrom(_)
StreamsFrom(s) ==
    IF s > NumStreams THEN <<>>
    ELSE (IF route[s] # -1 THEN <<s>> ELSE <<>>) \o StreamsFrom(s + 1)
get_sink_inputs == StreamsFrom(1)

\* re_volume captures \d{1,3} before the first "%" it can reach: the last
\* three digits of a percentage of four digits
ParsePerc(v) == v % 1000

\* get_volume: (perc, muted) of the block "Sink #<device>", (None, None)
\* when re_volume matches nothing
get_volume ==
    IF HasTarget(sinks, device)
    THEN [perc |-> ParsePerc(volume[device + 1]), muted |-> muted]
    ELSE [perc |-> Unknown, muted |-> FALSE]

\* the commands, as argv records
CmdInfo == [op |-> "info", target |-> 0, arg |-> "", value |-> 0]
CmdListLong == [op |-> "list sinks", target |-> 0, arg |-> "", value |-> 0]
CmdListSinks == [op |-> "list sinks short", target |-> 0, arg |-> "", value |-> 0]
CmdListInputs == [op |-> "list short sink-inputs", target |-> 0, arg |-> "", value |-> 0]
CmdSetDefault(dev) == [op |-> "set-default-sink", target |-> dev, arg |-> "", value |-> 0]
CmdMove(s, dev) == [op |-> "move-sink-input", target |-> dev, arg |-> "", value |-> s]
CmdMute(dev) == [op |-> "set-sink-mute", target |-> dev, arg |-> "toggle", value |-> 0]
\* change: "<n>%" (arg ""), "+<n>%" (arg "+") or "-<n>%" (arg "-")
CmdVolume(dev, sign, n) == [op |-> "set-sink-volume", target |-> dev, arg |-> sign, value |-> n]

\* what the server does with `pactl set-default-sink <dev>`: a numeric
\* name is a sink index; an index no sink has is refused
ServerSetDefault(dev) ==
    IF HasTarget(sinks, dev)
    THEN sinks[CHOOSE i \in DOMAIN sinks : sinks[i].index = dev].name
    ELSE default_sink

\* what the server does with `pactl move-sink-input <s> <dev>` for every s
ServerMoveAll(inputs, dev) ==
    [s \in Streams |-> IF (\E k \in DOMAIN inputs : inputs[k] = s) /\ HasTarget(sinks, dev)
                       THEN dev ELSE route[s]]

\* what the server does with `pactl -- set-sink-volume <dev> <change>`;
\* it does not go below 0
ServerSetVolume(dev, sign, n) ==
    IF ~HasTarget(sinks, dev) THEN volume
    ELSE [volume EXCEPT ![dev + 1] =
            IF sign = "" THEN n
            ELSE IF sign = "+" THEN @ + n
            ELSE IF @ - n < 0 THEN 0 ELSE @ - n]

\* what the server does with `pactl set-sink-mute <dev> toggle`
ServerToggleMute(dev) == IF HasTarget(sinks, dev) THEN ~muted ELSE muted

\* ------------------------------------------------ Py3status helpers
\* __get_sink_list: name = second token, state = last token of every line
get_sink_list == [i \in DOMAIN sinks |->
                    [name |-> sinks[i].name, state |-> sinks[i].state]]

\* __get_sink_index: position (from 0) of the first entry named sink_name;
\* ValueError when there is none
ValueError == -1
\* variant: falls back to the first sink instead of raising
get_sink_index_Fallback(sink_list, name) ==
    IF \E i \in DOMAIN sink_list : sink_list[i].name = name
    THEN (CHOOSE i \in DOMAIN sink_list :
            /\ sink_list[i].name = name
            /\ \A j \in DOMAIN sink_list : sink_list[j].name = name => i <= j) - 1
    ELSE IF sink_list # <<>> THEN 0 ELSE ValueError
get_sink_index(sink_list, name) ==
    IF \E i \in DOMAIN sink_list : sink_list[i].name = name
    THEN (CHOOSE i \in DOMAIN sink_list :
            /\ sink_list[i].name = name
            /\ \A j \in DOMAIN sink_list : sink_list[j].name = name => i <= j) - 1
    ELSE ValueError

\* delta = -1 if self.scroll_up else 1: the test is on the configured
\* button number, which is 4, never on the button of the event
ScrollDelta(b) == IF scroll_up # 0 THEN -1 ELSE 1

\* while sink_list[ind]['state'] == 'SUSPENDED': ind = (ind + delta) % len
\* The loop's only state is ind, so n iterations without leaving it have
\* seen every position: the loop then never ends (Hang).
Hang == -2
\* variant: the scan for a sink that is not SUSPENDED is left out
SkipSuspended_NoSkip(sink_list, ind, delta, left) == ind
RECURSIVE SkipSuspended(_, _, _, _)
SkipSuspended(sink_list, ind, delta, left) ==
    IF sink_list[ind + 1].state # "SUSPENDED" THEN ind
    ELSE IF left = 0 THEN Hang
    ELSE SkipSuspended(sink_list, (ind + delta) % Len(sink_list), delta, left - 1)

\* a handler that never returns stalls the widget: nothing runs after it
Running == outcome # "hang"

\* the mute flag get_volume reads once Pactl.device denotes another sink:
\* m if there is such a sink (other clients set it), nothing otherwise
Retarget(list, dev, m) == IF HasTarget(list, dev) THEN m ELSE FALSE

\* ------------------------------------------------------------- on_click
\* button == button_left: flip edit_mode, then store the default sink's name;
\* `pactl info` failing raises CommandError after the flip
ClickLeft(fail) ==
    /\ Running
    /\ button' = button_left
    /\ arg' = 0
    /\ edit_mode' = PyNot(edit_mode)
    /\ cmds' = <<CmdInfo>>
    /\ IF fail
       THEN outcome' = "CommandError" /\ sink_name' = sink_name
       ELSE outcome' = "ok" /\ sink_name' = get_default_device_name
    /\ UNCHANGED <<world, device, widget>>

\* variant: the mute command is run twice
toggle_mute_Twice == <<CmdMute(device), CmdMute(device)>>
\* toggle_mute: one `pactl set-sink-mute <device> toggle`
toggle_mute == <<CmdMute(device)>>

\* button == button_right: toggle_mute
ClickRight ==
    /\ Running
    /\ button' = button_right
    /\ arg' = 0
    /\ cmds' = toggle_mute
    /\ muted' = ServerToggleMute(device)
    /\ outcome' = "ok"
    /\ UNCHANGED <<sinks, default_sink, route, volume, device, storage, widget>>

\* any other button outside edit mode, or a button that is no scroll
ClickIgnored(b) ==
    /\ Running
    /\ b \notin {button_left, button_right}
    /\ ~Truthy(edit_mode) \/ b \notin {scroll_up, scroll_down}
    /\ button' = b
    /\ arg' = 0
    /\ cmds' = <<>>
    /\ outcome' = "ok"
    /\ UNCHANGED <<world, device, storage, widget>>

\* scroll in edit mode; failAt = 1: the sink listing fails, failAt = 2: the
\* stream listing inside swap_device fails; m: the mute flag of the sink the
\* backend is moved to
Scroll(b, failAt, m) ==
    /\ Running
    /\ b \in {scroll_up, scroll_down}
    /\ Truthy(edit_mode)
    /\ button' = b
    /\ arg' = 0
    /\ LET sink_list == get_sink_list
           delta == ScrollDelta(b)
           i == get_sink_index(sink_list, sink_name)
           first == (i + delta) % Len(sink_list)
           ind == SkipSuspended(sink_list, first, delta, Len(sink_list))
       IN  IF failAt = 1
           THEN /\ outcome' = "CommandError"
                /\ cmds' = <<CmdListSinks>>
                /\ UNCHANGED <<world, device, storage, widget>>
           ELSE IF i = ValueError
           THEN /\ outcome' = "ok"
                /\ cmds' = <<CmdListSinks>>
                /\ UNCHANGED <<world, device, storage, widget>>
           ELSE IF ind = Hang
           THEN /\ outcome' = "hang"
                /\ cmds' = <<CmdListSinks>>
                /\ UNCHANGED <<world, device, storage, widget>>
           ELSE \* storage_set('sink_name', ...); backend.swap_device(ind)
                /\ sink_name' = sink_list[ind + 1].name
                /\ device' = ind
                /\ muted' = IF ind = device THEN muted ELSE Retarget(sinks, ind, m)
                /\ default_sink' = ServerSetDefault(ind)
                /\ UNCHANGED <<sinks, volume, edit_mode, widget>>
                /\ IF failAt = 2
                   THEN /\ outcome' = "CommandError"
                        /\ cmds' = <<CmdListSinks, CmdSetDefault(ind), CmdListInputs>>
                        /\ route' = route
                   ELSE /\ outcome' = "ok"
                        /\ cmds' = <<CmdListSinks, CmdSetDefault(ind), CmdListInputs>>
                                   \o [k \in DOMAIN get_sink_inputs |->
                                         CmdMove(get_sink_inputs[k], ind)]
                        /\ route' = ServerMoveAll(get_sink_inputs, ind)

OnClick ==
    \/ \E fail \in BOOLEAN : ClickLeft(fail)
    \/ ClickRight
    \/ \E b \in Buttons : ClickIgnored(b)
    \/ \E b \in Buttons, failAt \in 0..2, m \in BOOLEAN : Scroll(b, failAt, m)

\* --------------------------------------- Pactl.volume_up / volume_down
\* variants of VolumeChange with a slip in the ceiling test
VolumeChange_Overshoot(perc, delta) ==
    IF perc + delta > max_volume
    THEN [sign |-> "", n |-> max_volume]
    ELSE [sign |-> "+", n |-> delta]
VolumeChange_NoClamp(perc, delta) == [sign |-> "+", n |-> delta]

\* the change volume_up asks for: "<max_volume>%" once perc + delta reaches
\* max_volume, "+<delta>%" below it
VolumeChange(perc, delta) ==
    IF perc + delta >= max_volume
    THEN [sign |-> "", n |-> max_volume]
    ELSE [sign |-> "+", n |-> delta]

\* volume_up: int(None) raises TypeError before any command is built
VolumeUp(delta) ==
    /\ Running
    /\ button' = 0
    /\ arg' = delta
    /\ LET perc == get_volume.perc
           change == VolumeChange(perc, delta)
       IN  IF perc = Unknown
           THEN /\ outcome' = "TypeError"
                /\ cmds' = <<CmdListLong>>
                /\ volume' = volume
           ELSE /\ outcome' = "volume_up"
                /\ cmds' = <<CmdListLong, CmdVolume(device, change.sign, change.n)>>
                /\ volume' = ServerSetVolume(device, change.sign, change.n)
    /\ UNCHANGED <<sinks, default_sink, route, muted, device, storage, widget>>

\* volume_down: one relative decrease, whatever the volume is
VolumeDown(delta) ==
    /\ Running
    /\ button' = 0
    /\ arg' = delta
    /\ outcome' = "volume_down"
    /\ cmds' = <<CmdVolume(device, "-", delta)>>
    /\ volume' = ServerSetVolume(device, "-", delta)
    /\ UNCHANGED <<sinks, default_sink, route, muted, device, storage, widget>>

\* ------------------------------------------------ the sound server
Quiet ==
    /\ button' = 0 /\ arg' = 0 /\ outcome' = "ok" /\ cmds' = <<>>
    /\ UNCHANGED widget

\* a sink appears
Plug(d, st, m) ==
    /\ Running
    /\ ~Present(d)
    /\ sinks' = Listing(1, [AsMap EXCEPT ![d] = st])
    /\ muted' = IF d - 1 = device THEN m ELSE muted
    /\ Quiet
    /\ UNCHANGED <<default_sink, route, volume, device, storage>>

\* a sink goes away; the server picks another default and moves its streams
Unplug(d, other) ==
    /\ Running
    /\ Present(d)
    /\ other # d
    /\ \/ other # 0 /\ Present(other)
       \/ other = 0 /\ Cardinality(Indices(sinks)) = 1
    /\ sinks' = Listing(1, [AsMap EXCEPT ![d] = "absent"])
    /\ muted' = IF d - 1 = device THEN FALSE ELSE muted
    /\ default_sink' = IF default_sink # SinkNames[d] THEN default_sink
                       ELSE IF other = 0 THEN None ELSE SinkNames[other]
    /\ route' = [s \in Streams |-> IF route[s] # d - 1 THEN route[s]
                                   ELSE IF other = 0 THEN -1 ELSE other - 1]
    /\ Quiet
    /\ UNCHANGED <<volume, device, storage>>

\* a sink is suspended or resumed
SinkState(d, st) ==
    /\ Running
    /\ Present(d)
    /\ sinks[SinkOf(d)].state # st
    /\ sinks' = [sinks EXCEPT ![SinkOf(d)].state = st]
    /\ Quiet
    /\ UNCHANGED <<default_sink, route, volume, muted, device, storage>>

\* another client changes the default sink, or `pactl info` stops printing it
DefaultChanges(n) ==
    /\ Running
    /\ n \in Names(sinks) \cup {None}
    /\ n # default_sink
    /\ default_sink' = n
    /\ Quiet
    /\ UNCHANGED <<sinks, route, volume, muted, device, storage>>

\* a stream starts on some sink, or ends
StreamChanges(s, to) ==
    /\ Running
    /\ to \in Indices(sinks) \cup {-1}
    /\ to # route[s]
    /\ (route[s] # -1) => (to = -1)
    /\ route' = [route EXCEPT ![s] = to]
    /\ Quiet
    /\ UNCHANGED <<sinks, default_sink, volume, muted, device, storage>>

Server ==
    \/ \E d \in Devices, st \in SinkStates, m \in BOOLEAN : Plug(d, st, m)
    \/ \E d \in Devices, other \in {0} \cup Devices : Unplug(d, other)
    \/ \E d \in Devices, st \in SinkStates : SinkState(d, st)
    \/ \E n \in Names(sinks) \cup {None} : DefaultChanges(n)

\* ------------------------------------------------ Py3status.volume_status
\* the default glyph ramp: nine characters, lowest first
DefaultBlocks == <<"b0", "b1", "b2", "b3", "b4", "b5", "b6", "b7", "b8">>
thresholds == <<[threshold |-> 0, label |-> "bad"],
                [threshold |-> 20, label |-> "degraded"],
                [threshold |-> 50, label |-> "good"]>>

\* the marker "?" that stands for a percentage nobody knows
QuestionMark == -3

\* math.ceil(a / b) for a >= 0, b > 0.  The code divides in double
\* precision; for percentages of up to three digits and ramps of up to
\* eleven glyphs the double has the ceiling of the exact quotient.
CeilDiv(a, b) == (a + b - 1) \div b
Min(a, b) == IF a <= b THEN a ELSE b

\* variant: the quotient is rounded down
IconIndex_Floor(perc, L) == Min(L - 1, (perc * (L - 1)) \div 100)
\* min(len(blocks) - 1, int(math.ceil(int(perc) / 100 * (len(blocks) - 1))))
IconIndex(perc, L) == Min(L - 1, CeilDiv(perc * (L - 1), 100))

\* variant: None is handed on as it is
Percentage_Raw(perc) == perc
\* if perc is None: perc = "?"
Percentage(perc) == IF perc = Unknown THEN QuestionMark ELSE perc

\* color_muted = py3.COLOR_MUTED or py3.COLOR_BAD, whatever colour that is
color_muted == "color_muted"

\* the dictionary volume_status builds from what get_volume returned;
\* sink_name is among the format's data only in edit mode
volume_status ==
    LET perc == get_volume.perc
        shown == IF Truthy(edit_mode) THEN sink_name ELSE "unset"
    IN  IF Percentage(perc) = QuestionMark
        THEN [color |-> None, icon |-> None, percentage |-> Percentage(perc),
              format |-> "format", sink_name |-> shown]
        ELSE IF get_volume.muted
        THEN [color |-> color_muted, icon |-> None, percentage |-> perc,
              format |-> "format_muted", sink_name |-> shown]
        ELSE [color |-> "#FFFFFF",
              icon |-> blocks[IconIndex(perc, Len(blocks)) + 1],
              percentage |-> perc, format |-> "format", sink_name |-> shown]

\* nothing returned yet
NoResponse == [color |-> None, icon |-> None, percentage |-> Unknown,
               format |-> None, sink_name |-> "unset"]

\* the periodic query; `pactl list sinks` failing raises CommandError
VolumeStatus(fail) ==
    /\ Running
    /\ backend # None
    /\ button' = 0
    /\ arg' = 0
    /\ cmds' = <<CmdListLong>>
    /\ IF fail
       THEN outcome' = "CommandError" /\ response' = response
       ELSE outcome' = "volume_status" /\ response' = volume_status
    /\ UNCHANGED <<world, device, storage, command, backend, installed, blocks>>

\* ------------------------------------------- Py3status.post_config_hook
Supported == {"amixer", "pamixer", "pactl"}
\* the executables the hook asks py3.check_commands about
Executables == {"pulseaudio", "pamixer", "pactl", "amixer"}
\* what the configuration may hold as `command`
Overrides == {None, "amixer", "pamixer", "pactl", "alsamixer"}
\* the classes the module defines: what globals() can resolve
Classes == {"Audio", "Pactl", "Py3status"}

\* str.capitalize on the names that get this far
Capitalize(c) ==
    CASE c = "amixer" -> "Amixer"
      [] c = "pamixer" -> "Pamixer"
      [] c = "pactl" -> "Pactl"
      [] OTHER -> c

\* py3.check_commands: the first command of the list that is installed,
\* None when there is none
check_commands(cmd_list) ==
    IF \E i \in DOMAIN cmd_list : cmd_list[i] \in installed
    THEN cmd_list[CHOOSE i \in DOMAIN cmd_list :
                    /\ cmd_list[i] \in installed
                    /\ \A j \in DOMAIN cmd_list : cmd_list[j] \in installed => i <= j]
    ELSE None

\* variant: the list is not cut down when pulseaudio is missing
Candidates_All == <<"pamixer", "pactl", "amixer">>
\* commands = ["pamixer", "pactl", "amixer"], and ["amixer"] alone when
\* there is no pulseaudio executable
Candidates ==
    IF "pulseaudio" \in installed
    THEN <<"pamixer", "pactl", "amixer">>
    ELSE <<"amixer">>

\* `pactl list short sinks`, as get_device_index runs it
CmdListShort == [op |-> "list short sinks", target |-> 0, arg |-> "", value |-> 0]

\* post_config_hook, the construction of the backend included; failAt = 1:
\* `pactl info` fails in Pactl.setup, failAt = 2: the short listing fails
PostConfigHook(failAt) ==
    /\ backend = None
    /\ outcome = "ok"
    /\ button' = 0
    /\ arg' = 0
    /\ LET chosen == IF command = None THEN check_commands(Candidates) ELSE command
           index == get_device_index(default_sink)
       IN  /\ command' = chosen
           /\ IF command # None /\ command \notin Supported
              THEN /\ outcome' = "Exception: invalid command"
                   /\ cmds' = <<>>
                   /\ UNCHANGED <<backend, device>>
              ELSE IF command # None /\ command \notin installed
              THEN /\ outcome' = "Exception: command not installed"
                   /\ cmds' = <<>>
                   /\ UNCHANGED <<backend, device>>
              ELSE IF chosen = None
              THEN /\ outcome' = "Exception: no available binary"
                   /\ cmds' = <<>>
                   /\ UNCHANGED <<backend, device>>
              ELSE IF Capitalize(chosen) \notin Classes
              THEN \* globals()[...] has no such key
                   /\ outcome' = "KeyError"
                   /\ cmds' = <<>>
                   /\ UNCHANGED <<backend, device>>
              ELSE IF failAt = 1
              THEN /\ outcome' = "CommandError"
                   /\ cmds' = <<CmdInfo>>
                   /\ UNCHANGED <<backend, device>>
              ELSE IF default_sink = None
              THEN /\ outcome' = "RuntimeError"
                   /\ cmds' = <<CmdInfo>>
                   /\ UNCHANGED <<backend, device>>
              ELSE IF failAt = 2
              THEN /\ outcome' = "CommandError"
                   /\ cmds' = <<CmdInfo, CmdListShort>>
                   /\ UNCHANGED <<backend, device>>
              ELSE IF index = -1
              THEN /\ outcome' = "RuntimeError"
                   /\ cmds' = <<CmdInfo, CmdListShort>>
                   /\ UNCHANGED <<backend, device>>
              ELSE /\ outcome' = "ok"
                   /\ cmds' = <<CmdInfo, CmdListShort>>
                   /\ backend' = Capitalize(chosen)
                   /\ device' = index
    /\ UNCHANGED <<world, storage, installed, blocks, response>>

\* what post_config_hook leaves when it finds pulseaudio and pactl and the
\* default sink: the Pactl backend; nothing was queried yet
Settled ==
    /\ command = "pactl"
    /\ backend = "Pactl"
    /\ installed = {"pulseaudio", "pactl"}
    /\ blocks = DefaultBlocks
    /\ response = NoResponse

\* ------------------------------------------------------ specifications
Listings == {Listing(1, f) : f \in [Devices -> {"absent"} \cup SinkStates]}

\* After post_config_hook: Pactl.setup resolved the default sink to its
\* index (a default that resolves to no sink fails the construction), the
\* storage holds nothing.  Nothing is playing.
Init ==
    /\ sinks \in Listings
    /\ default_sink \in Names(sinks)
    /\ device = get_device_index(default_sink)
    /\ route = [s \in Streams |-> -1]
    /\ volume = [d \in Devices |-> 100]
    /\ muted = FALSE
    /\ edit_mode = None
    /\ sink_name = None
    /\ button = 0
    /\ arg = 0
    /\ outcome = "ok"
    /\ cmds = <<>>
    /\ Settled

\* the widget's clicks against a server whose sinks come and go
Next == OnClick \/ Server

Spec == Init /\ [][Next]_vars

\* the backend's volume operations on a listing that stays as it is; the
\* backend's device is any index a scroll may have left in it
MixerListings == {Listing(1, f) : f \in [Devices -> {"absent", "RUNNING"}]}

InitMixer ==
    /\ sinks \in MixerListings
    /\ default_sink = (IF sinks = <<>> THEN None ELSE sinks[1].name)
    /\ device \in 0..(NumDevices - 1)
    /\ route = [s \in Streams |-> -1]
    /\ \E v \in 0..max_volume :
          volume = [d \in Devices |-> IF d - 1 = device THEN v ELSE 100]
    /\ muted = FALSE
    /\ edit_mode = None
    /\ sink_name = None
    /\ button = 0
    /\ arg = 0
    /\ outcome = "ok"
    /\ cmds = <<>>
    /\ Settled

NextMixer ==
    \/ \E delta \in Deltas : VolumeUp(delta)
    \/ \E delta \in Deltas : VolumeDown(delta)

SpecMixer == InitMixer /\ [][NextMixer]_vars

\* the widget's clicks while streams start and end, on a set of sinks that
\* stays as it is, none of them suspended
InitStreams ==
    /\ sinks \in MixerListings
    /\ default_sink \in Names(sinks)
    /\ device = get_device_index(default_sink)
    /\ route \in [Streams -> Indices(sinks) \cup {-1}]
    /\ volume = [d \in Devices |-> 100]
    /\ muted = FALSE
    /\ edit_mode = None
    /\ sink_name = None
    /\ button = 0
    /\ arg = 0
    /\ outcome = "ok"
    /\ cmds = <<>>
    /\ Settled

NextStreams ==
    \/ OnClick
    \/ \E s \in Streams, to \in -1..(NumDevices - 1) : StreamChanges(s, to)

SpecStreams == InitStreams /\ [][NextStreams]_vars

\* the periodic query on any volume, mute flag and glyph ramp
Ramps == {SubSeq(DefaultBlocks, 1, L) : L \in 1..Len(DefaultBlocks)}

InitStatus ==
    /\ sinks \in MixerListings
    /\ default_sink = (IF sinks = <<>> THEN None ELSE sinks[1].name)
    /\ device \in 0..(NumDevices - 1)
    /\ route = [s \in Streams |-> -1]
    /\ \E v \in (IF HasTarget(sinks, device) THEN 0..max_volume ELSE {100}) :
          volume = [d \in Devices |-> IF d - 1 = device THEN v ELSE 100]
    /\ muted \in (IF HasTarget(sinks, device) THEN BOOLEAN ELSE {FALSE})
    /\ edit_mode = None
    /\ sink_name = None
    /\ button = 0
    /\ arg = 0
    /\ outcome = "ok"
    /\ cmds = <<>>
    /\ command = "pactl"
    /\ backend = "Pactl"
    /\ installed = {"pulseaudio", "pactl"}
    /\ blocks \in Ramps
    /\ response = NoResponse

NextStatus == \E fail \in BOOLEAN : VolumeStatus(fail)

SpecStatus == InitStatus /\ [][NextStatus]_vars

\* start-up under any configuration and any set of installed executables,
\* and the clicks and queries that follow it
InitStartup ==
    /\ sinks \in MixerListings
    /\ default_sink \in Names(sinks) \cup {None}
    /\ device = 0
    /\ route = [s \in Streams |-> -1]
    /\ volume = [d \in Devices |-> 100]
    /\ muted = FALSE
    /\ edit_mode = None
    /\ sink_name = None
    /\ button = 0
    /\ arg = 0
    /\ outcome = "ok"
    /\ cmds = <<>>
    /\ command \in Overrides
    /\ backend = None
    /\ installed \in SUBSET Executables
    /\ blocks = DefaultBlocks
    /\ response = NoResponse

NextStartup ==
    \/ \E failAt \in 0..2 : PostConfigHook(failAt)
    \/ backend # None /\ OnClick
    \/ \E fail \in BOOLEAN : VolumeStatus(fail)

SpecStartup == InitStartup /\ [][NextStartup]_vars

\* ------------------------------------------------------------- claims
IsVolumeCmd(c) == c.op = "set-sink-volume"
IsSwapCmd(c) == c.op \in {"set-default-sink", "move-sink-input"}
VolumeCmds(seq) == SelectSeq(seq, IsVolumeCmd)
SwapCmds(seq) == SelectSeq(seq, IsSwapCmd)

\* C1: volume_up(delta) with a known percentage p issues exactly one
\* set-volume command: the absolute "<max_volume>%" when p + delta >=
\* max_volume, the relative "+<delta>%" otherwise; no absolute target is
\* above max_volume.
C1_VolumeUpClamps ==
    [][outcome' = "volume_up" =>
        LET p == get_volume.perc
            issued == VolumeCmds(cmds')
        IN  /\ p # Unknown
            /\ Len(issued) = 1
            /\ IF p + arg' >= max_volume
               THEN issued[1] = CmdVolume(device, "", max_volume)
               ELSE issued[1] = CmdVolume(device, "+", arg')
            /\ \A k \in DOMAIN issued :
                  issued[k].arg = "" => issued[k].value <= max_volume]_vars

\* volume_up has just clamped: one absolute command took the sink to the ceiling
C1_Witness ==
    /\ outcome = "volume_up"
    /\ arg > 0
    /\ Len(cmds) = 2
    /\ cmds[2] = CmdVolume(device, "", max_volume)
    /\ get_volume.perc = max_volume

\* volume_up below the ceiling: one relative command
C1_WitnessRelative ==
    /\ outcome = "volume_up"
    /\ arg = volume_delta
    /\ cmds[2] = CmdVolume(device, "+", volume_delta)
    /\ get_volume.perc < max_volume

\* C2: from a percentage in [0, max_volume], after any volume_up and
\* volume_down calls the percentage get_volume reports, when it is known,
\* is in [0, max_volume].
C2_PercentageInRange ==
    get_volume.perc # Unknown => get_volume.perc \in 0..max_volume

\* volume_down has just hit the floor
C2_Witness ==
    /\ outcome = "volume_down"
    /\ arg > 0
    /\ get_volume.perc = 0

\* a scroll event is being handled in edit mode
ScrolledInEdit == Truthy(edit_mode) /\ button' \in {scroll_up, scroll_down}
\* ... and `pactl list sinks short` gave its listing
ListingRead == ~(outcome' = "CommandError" /\ cmds' = <<CmdListSinks>>)
\* position (from 0) of the stored selection in the current listing
SelIndex == get_sink_index(get_sink_list, sink_name)
\* position reached from i by k steps of delta
Stepped(i, k, delta) == (i + k * delta) % Len(sinks)

\* C3: the edit-mode machine starts in NORMAL; a primary click in NORMAL
\* moves it to EDIT and stores, as sink_name, the name of the current
\* default device that get_default_device(True) returned.
C3_EnterEdit ==
    /\ ~Truthy(edit_mode)
    /\ [][(~Truthy(edit_mode) /\ button' = button_left /\ outcome' = "ok") =>
            (Truthy(edit_mode') /\ sink_name' = default_sink)]_vars

\* EDIT was entered by a primary click and holds the default sink's name
C3_Witness ==
    /\ button = button_left
    /\ outcome = "ok"
    /\ edit_mode = "True"
    /\ sink_name # None
    /\ sink_name = default_sink

\* C4 (as claimed): a primary click in EDIT moves to NORMAL and leaves
\* sink_name, the name selected so far, as it was.
C4_SelectionRetained ==
    [][(Truthy(edit_mode) /\ sink_name # None /\ button' = button_left) =>
        (~Truthy(edit_mode') /\ sink_name' = sink_name)]_vars

\* C4 (amended): a primary click in EDIT moves to NORMAL and overwrites
\* sink_name with the name of the current default device; sink_name keeps
\* its value only when the lookup fails.
C4_SelectionOverwritten ==
    [][(Truthy(edit_mode) /\ button' = button_left) =>
        /\ ~Truthy(edit_mode')
        /\ sink_name' = IF outcome' = "ok" THEN default_sink ELSE sink_name]_vars

\* NORMAL was re-entered by a primary click, after a scroll had moved the
\* backend to a list position that is not the default sink's index
C4_Witness ==
    /\ button = button_left
    /\ outcome = "ok"
    /\ edit_mode = "False"
    /\ sink_name # None
    /\ sink_name = default_sink
    /\ device # get_device_index(default_sink)

\* C5: in EDIT with the selection at position i of n sinks, none of them
\* SUSPENDED, scroll-down selects position (i+1) mod n and scroll-up
\* position (i-1) mod n.
C5_ScrollDirection ==
    [][(/\ ScrolledInEdit
        /\ ListingRead
        /\ SelIndex # ValueError
        /\ \A k \in DOMAIN sinks : sinks[k].state # "SUSPENDED") =>
            LET step == IF button' = scroll_down THEN 1 ELSE -1
            IN  sink_name' = sinks[Stepped(SelIndex, 1, step) + 1].name]_vars

\* C6: a scroll that stores a new selection selects the first sink, stepping
\* from the current position by the handler's step modulo the number of
\* sinks, that is not SUSPENDED; the sink stored and handed to swap_device
\* is not SUSPENDED in the listing the scroll read.
C6_SkipsSuspended ==
    [][(ScrolledInEdit /\ SwapCmds(cmds') # <<>>) =>
        LET delta == ScrollDelta(button')
        IN  \E k \in 1..Len(sinks) :
              LET pos == Stepped(SelIndex, k, delta)
              IN  /\ sinks[pos + 1].state # "SUSPENDED"
                  /\ \A j \in 1..(k - 1) :
                        sinks[Stepped(SelIndex, j, delta) + 1].state = "SUSPENDED"
                  /\ sink_name' = sinks[pos + 1].name
                  /\ SwapCmds(cmds')[1] = CmdSetDefault(pos)
                  /\ device' = pos]_vars

\* a scroll has just stored a sink next to a SUSPENDED one in a listing of
\* three
C6_Witness ==
    /\ button \in {scroll_up, scroll_down}
    /\ outcome = "ok"
    /\ Len(sinks) = 3
    /\ SelIndex = device
    /\ SwapCmds(cmds) # <<>>
    /\ sinks[device + 1].state # "SUSPENDED"
    /\ sinks[((device + 1) % 3) + 1].state = "SUSPENDED"
    /\ sinks[((device + 2) % 3) + 1].state # "SUSPENDED"

\* C7: the scroll handler terminates for every listing, also when every
\* sink is SUSPENDED.
C7_ScrollTerminates == outcome # "hang"

\* C8: in EDIT, when every sink but the selected one is SUSPENDED, a scroll
\* leaves sink_name as it is and issues no swap_device command.
C8_NoEligibleNoOp ==
    [][(/\ ScrolledInEdit
        /\ ListingRead
        /\ SelIndex # ValueError
        /\ \A k \in DOMAIN sinks :
              k # SelIndex + 1 => sinks[k].state = "SUSPENDED") =>
            (sink_name' = sink_name /\ SwapCmds(cmds') = <<>>)]_vars

\* C9: in EDIT, a scroll whose stored selection names no sink of the
\* listing (an empty listing and a None selection included) raises nothing
\* and changes nothing: the storage is as before, swap_device is not run.
C9_UnknownSelectionNoOp ==
    [][(ScrolledInEdit /\ ListingRead /\ sink_name \notin Names(sinks)) =>
        /\ outcome' = "ok"
        /\ UNCHANGED <<storage, device, world>>
        /\ SwapCmds(cmds') = <<>>]_vars

\* a scroll has just returned on a selection the listing does not have
C9_Witness ==
    /\ button \in {scroll_up, scroll_down}
    /\ outcome = "ok"
    /\ Truthy(edit_mode)
    /\ cmds = <<CmdListSinks>>
    /\ sink_name \notin Names(sinks)
    /\ sinks # <<>>

\* ... on an empty listing, on a selection of None
C9_WitnessEmpty ==
    /\ button \in {scroll_up, scroll_down}
    /\ cmds = <<CmdListSinks>>
    /\ Truthy(edit_mode)
    /\ sinks = <<>>
C9_WitnessNone ==
    /\ button \in {scroll_up, scroll_down}
    /\ cmds = <<CmdListSinks>>
    /\ Truthy(edit_mode)
    /\ sink_name = None

\* C10: in EDIT, the name stored as sink_name is the name of a sink of the
\* most recent enumeration, however the server's listing changed between
\* the events.  Right after a scroll whose listing command succeeded the
\* most recent enumeration is the current listing (no handler changes the
\* listing), so the claim says of these states that the name is listed.
C10_SelectionListed ==
    (/\ Truthy(edit_mode)
     /\ sink_name # None
     /\ button \in {scroll_up, scroll_down}
     /\ cmds # <<>>
     /\ ~(outcome = "CommandError" /\ cmds = <<CmdListSinks>>)) =>
        sink_name \in Names(sinks)

IsMuteCmd(c) == c.op = "set-sink-mute"

\* C11: a right click runs toggle_mute exactly once, in NORMAL and in EDIT
\* alike: one set-sink-mute toggle for the backend's device is the only
\* command, and edit_mode and sink_name stay as they were.
C11_RightClickTogglesMute ==
    [][button' = button_right =>
        /\ Len(SelectSeq(cmds', IsMuteCmd)) = 1
        /\ cmds' = <<CmdMute(device)>>
        /\ UNCHANGED <<storage, device>>]_vars

\* a right click in EDIT has just muted the sink
C11_Witness ==
    /\ button = button_right
    /\ edit_mode = "True"
    /\ sink_name # None
    /\ cmds = <<CmdMute(device)>>
    /\ muted

\* ... and in NORMAL
C11_WitnessNormal ==
    /\ button = button_right
    /\ ~Truthy(edit_mode)
    /\ cmds = <<CmdMute(device)>>
    /\ muted

IsMoveCmd(c) == c.op = "move-sink-input"
\* the device swap_device was given: the target of its set-default command
NewDevice(seq) == SwapCmds(seq)[1].target

\* C12: swap_device(new_device) makes new_device the backend's device, runs
\* set-default-sink for it and then one move-sink-input per stream of the
\* short listing, each to new_device; when it returns without an error
\* every listed stream plays on new_device and new_device is the server's
\* default sink.
C12_SwapDevice ==
    [][(SwapCmds(cmds') # <<>> /\ outcome' = "ok") =>
        LET new_device == NewDevice(cmds')
            listed == get_sink_inputs
        IN  /\ device' = new_device
            /\ SwapCmds(cmds')[1] = CmdSetDefault(new_device)
            /\ SelectSeq(cmds', IsMoveCmd) =
                  [k \in DOMAIN listed |-> CmdMove(listed[k], new_device)]
            /\ \A k \in DOMAIN listed : route'[listed[k]] = new_device
            /\ \E i \in DOMAIN sinks :
                  sinks[i].index = new_device /\ sinks[i].name = default_sink']_vars

\* label of the last pair of thresholds whose threshold is <= p, the first
\* label when p is below all of them
ThresholdLabel(p) ==
    LET fit == {i \in DOMAIN thresholds : thresholds[i].threshold <= p}
    IN  IF fit = {} THEN thresholds[1].label
        ELSE thresholds[CHOOSE i \in fit : \A j \in fit : j <= i].label

\* the periodic query has just answered for a known percentage, not muted
AnsweredUnmuted ==
    /\ outcome' = "volume_status"
    /\ get_volume.perc # Unknown
    /\ ~get_volume.muted

\* C13: for a known percentage p of a sink that is not muted, the colour
\* volume_status returns is the label of the last pair of thresholds whose
\* threshold is <= p: bad below 20, degraded from 20, good from 50.
C13_ThresholdColor ==
    [][AnsweredUnmuted =>
        response'.color = ThresholdLabel(get_volume.perc)]_vars

C14_WitnessAbove ==
    /\ outcome = "volume_status"
    /\ ~get_volume.muted
    /\ get_volume.perc > 100
    /\ Len(blocks) > 1
    /\ response.icon = blocks[Len(blocks)]

\* C15: when re_volume matches nothing in the listing (no block of the
\* backend's device), get_volume returns (None, None) and the periodic
\* query, unless the listing command itself fails, returns normally with
\* "?" as the percentage and no icon.
C15_UnknownRendered ==
    [][(/\ cmds' = <<CmdListLong>>
        /\ outcome' # "CommandError"
        /\ ~HasTarget(sinks, device)) =>
            /\ get_volume.perc = Unknown
            /\ ~get_volume.muted
            /\ outcome' = "volume_status"
            /\ response'.percentage = QuestionMark
            /\ response'.icon = None
            /\ response'.color = None]_vars

\* the query has just answered "?" on a listing with sinks, none of them
\* the backend's
C15_Witness ==
    /\ outcome = "volume_status"
    /\ sinks # <<>>
    /\ ~HasTarget(sinks, device)
    /\ response.percentage = QuestionMark
    /\ response.icon = None

\* the candidate list of the claim, in its order
Ordered == <<"pamixer", "pactl", "amixer">>
\* post_config_hook is about to run
StartingUp == backend = None /\ outcome = "ok"
\* the errors post_config_hook raises itself
ConfigError(o) == o \in {"Exception: invalid command",
                         "Exception: command not installed",
                         "Exception: no available binary"}

\* C16 (as claimed): without an override post_config_hook selects the first
\* of pamixer, pactl, amixer that is installed; with an override exactly
\* that name; it fails with a configuration error when the override is none
\* of the three, when the override is not installed, or when none of the
\* three is installed, and in no other case.
C16_FirstInstalled ==
    [][StartingUp =>
        LET unsupported == command # None /\ command \notin Supported
            missing == command # None /\ command \notin installed
            nothing == command = None /\ check_commands(Ordered) = None
        IN  /\ ConfigError(outcome') <=> (unsupported \/ missing \/ nothing)
            /\ ~ConfigError(outcome') =>
                  command' = IF command = None THEN check_commands(Ordered)
                             ELSE command]_vars

\* C16 (amended): without an override post_config_hook selects the first of
\* pamixer, pactl, amixer that is installed when there is a pulseaudio
\* executable, and amixer, if installed, when there is none; with an
\* override exactly that name; it raises its error when the override is
\* none of the three, when the override is not installed, or when the
\* selection without an override finds nothing.
C16_FirstInstalledUnderPulse ==
    [][StartingUp =>
        LET unsupported == command # None /\ command \notin Supported
            missing == command # None /\ command \notin installed
            found == IF "pulseaudio" \in installed THEN check_commands(Ordered)
                     ELSE IF "amixer" \in installed THEN "amixer" ELSE None
            nothing == command = None /\ found = None
        IN  /\ ConfigError(outcome') <=> (unsupported \/ missing \/ nothing)
            /\ (outcome' = "Exception: invalid command") <=> unsupported
            /\ (outcome' = "Exception: command not installed") <=>
                  (~unsupported /\ missing)
            /\ ~ConfigError(outcome') =>
                  command' = IF command = None THEN found ELSE command]_vars

\* start-up has just failed for want of a binary although pactl is
\* installed: there is no pulseaudio executable
C16_Witness ==
    /\ outcome = "Exception: no available binary"
    /\ command = None
    /\ backend = None
    /\ "pactl" \in installed
    /\ "pulseaudio" \notin installed

\* start-up has just settled on pactl, the second of the list
C16_WitnessSelected ==
    /\ outcome = "ok"
    /\ cmds = <<CmdInfo, CmdListShort>>
    /\ command = "pactl"
    /\ backend = "Pactl"
    /\ "pamixer" \notin installed
    /\ "amixer" \in installed

\* C17: each of the three names stands for an implemented backend: when the
\* selection settles on a supported, installed name and the sound server
\* answers, start-up ends normally with a backend object of the class
\* named after it; no later click or query changes command or backend.
C17_BackendImplemented ==
    [][/\ (/\ StartingUp
           /\ command' \in Supported
           /\ command' \in installed
           /\ ~ConfigError(outcome')
           /\ outcome' \notin {"CommandError", "RuntimeError"}) =>
              (outcome' = "ok" /\ backend' = Capitalize(command'))
       /\ backend # None => UNCHANGED <<command, backend>>]_vars

C18_WitnessFresh ==
    /\ button \in {scroll_up, scroll_down}
    /\ edit_mode = None
    /\ cmds = <<>>

\* C19: after a scroll in EDIT that stores another selection, the sink the
\* backend's device denotes and the server's default sink are the sink
\* whose name was stored, also when sink indices differ from positions in
\* the listing.
C19_SelectionIsDevice ==
    [][(ScrolledInEdit /\ sink_name' # sink_name) =>
        /\ \E i \in DOMAIN sinks :
              sinks[i].index = device' /\ sinks[i].name = sink_name'
        /\ default_sink' = sink_name']_vars

\* C20: when the default-device lookup of a left click fails with a
\* command error, edit_mode and sink_name are left as they were before the
\* click.
C20_FailedLookupKeepsState ==
    [][(button' = button_left /\ outcome' = "CommandError") =>
        UNCHANGED storage]_vars
====
